---- MODULE Spec2Model ----
(***************************************************************************)
(* The CHIP-8 interpreter core of src/src/chip8.rs as a state machine.     *)
(* The machine state is the Cpu struct; the operations are Cpu::new (Init),*)
(* Cpu::cycle and Cpu::set_keys.  Wall-clock time is an input of cycle: the *)
(* whole timer periods (1/60 s) that prev_timer_time.elapsed() returns.    *)
(***************************************************************************)
EXTENDS Integers, Sequences, FiniteSets, TLC

\* ------------------------------------------------------------ constants
DISPLAY_WIDTH == 64
DISPLAY_HEIGHT == 32
FONT_START == \H050
FONT_HEIGHT == 5
KEY_COUNT == 16
MEMORY_SIZE == 4096
PROGRAM_COUNTER_START == \H200
V_COUNT == 16
V_CARRY_FLAG == 15

FONTS ==
    << \HF0, \H90, \H90, \H90, \HF0,
       \H20, \H60, \H20, \H20, \H70,
       \HF0, \H10, \HF0, \H80, \HF0,
       \HF0, \H10, \HF0, \H10, \HF0,
       \H90, \H90, \HF0, \H10, \H10,
       \HF0, \H80, \HF0, \H10, \HF0,
       \HF0, \H80, \HF0, \H90, \HF0,
       \HF0, \H10, \H20, \H40, \H40,
       \HF0, \H90, \HF0, \H90, \HF0,
       \HF0, \H90, \HF0, \H10, \HF0,
       \HF0, \H90, \HF0, \H90, \H90,
       \HE0, \H90, \HE0, \H90, \HE0,
       \HF0, \H80, \H80, \H80, \HF0,
       \HE0, \H90, \H90, \H90, \HE0,
       \HF0, \H80, \HF0, \H80, \HF0,
       \HF0, \H80, \HF0, \H80, \H80 >>

\* --------------------------------------------------------------- bounds
\* Most whole timer periods prev_timer_time.elapsed() returns to a cycle.
MaxElapsed == 2
\* Deepest call stack explored (the Vec itself has no limit).
MaxStack == 18
\* Most timer-gate firings counted after a set of the sound timer.
MaxTicks == 4

\* ------------------------------------------------------- u8 arithmetic
\* Bitwise operators of u8 / u16, bit by bit.
RECURSIVE BitAnd(_, _)
BitAnd(a, b) ==
    IF a = 0 \/ b = 0 THEN 0
    ELSE (IF a % 2 = 1 /\ b % 2 = 1 THEN 1 ELSE 0) + 2 * BitAnd(a \div 2, b \div 2)

RECURSIVE BitOr(_, _)
BitOr(a, b) ==
    IF a = 0 THEN b
    ELSE IF b = 0 THEN a
    ELSE (IF a % 2 = 1 \/ b % 2 = 1 THEN 1 ELSE 0) + 2 * BitOr(a \div 2, b \div 2)

RECURSIVE BitXor(_, _)
BitXor(a, b) ==
    IF a = 0 THEN b
    ELSE IF b = 0 THEN a
    ELSE (IF a % 2 # b % 2 THEN 1 ELSE 0) + 2 * BitXor(a \div 2, b \div 2)

\* u8::saturating_add in the place of wrapping_add.
saturating_add(a, b) == IF a + b > 255 THEN 255 ELSE a + b

\* u8::wrapping_add
wrapping_add(a, b) == (a + b) % 256

\* overflowing_add with the carry raised one too early.
overflowing_add_early(a, b) == << (a + b) % 256, a + b >= 255 >>

\* u8::overflowing_add: (sum, overflow)
overflowing_add(a, b) == << (a + b) % 256, a + b > 255 >>

\* overflowing_sub reporting a borrow on equal operands.
overflowing_sub_equal(a, b) == << (a - b) % 256, a <= b >>

\* u8::overflowing_sub: (difference, overflow)
overflowing_sub(a, b) == << (a - b) % 256, a < b >>

\* u8::wrapping_sub in the place of saturating_sub.
wrapping_sub(a, b) == (a - b) % 256

\* u8::saturating_sub
saturating_sub(a, b) == IF a >= b THEN a - b ELSE 0

\* u8 >> 1 and u8 << 1 (bits shifted out of the byte are lost)
shr1(a) == a \div 2

shl1(a) == (a * 2) % 256

\* u16::wrapping_add
wrapping_add16(a, b) == (a + b) % 65536

\* `b as u8` for a bool
bool_as_u8(b) == IF b THEN 1 ELSE 0

\* -------------------------------------------------------------- state
VARIABLES
    memory,            \* [u8; MEMORY_SIZE]
    program_counter,   \* u16
    i,                 \* u16
    v,                 \* [u8; V_COUNT]
    stack,             \* Vec<u16>
    delay_timer,       \* u8
    sound_timer,       \* u8
    display,           \* [bool; DISPLAY_WIDTH * DISPLAY_HEIGHT]
    display_modified,  \* bool
    pressed_keys,      \* [bool; KEY_COUNT]
    aborted,           \* the process has panicked
    last               \* history: the machine as the latest cycle() found it

vars ==
    << memory, program_counter, i, v, stack, delay_timer, sound_timer,
       display, display_modified, pressed_keys, aborted, last >>

\* The Cpu struct as one record.
Cpu ==
    [ memory |-> memory, program_counter |-> program_counter, i |-> i, v |-> v,
      stack |-> stack, delay_timer |-> delay_timer, sound_timer |-> sound_timer,
      display |-> display, display_modified |-> display_modified,
      pressed_keys |-> pressed_keys, aborted |-> aborted ]

\* Cpu::new: zeroed memory, then the font table copied to FONT_START and the
\* rom copied to PROGRAM_COUNTER_START (the roms here fit the memory).
new(rom) ==
    [ memory |->
        LET zeroed == [ a \in 0..(MEMORY_SIZE - 1) |-> 0 ]
            fonts == [ a \in FONT_START..(FONT_START + Len(FONTS) - 1) |->
                        FONTS[a - FONT_START + 1] ]
            image == [ a \in PROGRAM_COUNTER_START..(PROGRAM_COUNTER_START + Len(rom) - 1) |->
                        rom[a - PROGRAM_COUNTER_START + 1] ]
        IN  image @@ fonts @@ zeroed,
      program_counter |-> PROGRAM_COUNTER_START,
      i |-> 0,
      v |-> [ r \in 0..(V_COUNT - 1) |-> 0 ],
      stack |-> << >>,
      delay_timer |-> 0,
      sound_timer |-> 0,
      display |-> [ p \in 0..(DISPLAY_WIDTH * DISPLAY_HEIGHT - 1) |-> FALSE ],
      display_modified |-> FALSE,
      pressed_keys |-> [ k \in 0..(KEY_COUNT - 1) |-> FALSE ],
      aborted |-> FALSE ]

\* beep reading the delay timer.
beep_on_delay == delay_timer > 0

\* Cpu::beep
beep == sound_timer > 0

\* Cpu::process_timers
process_timers(s) ==
    [ s EXCEPT !.delay_timer = saturating_sub(s.delay_timer, 1),
               !.sound_timer = saturating_sub(s.sound_timer, 1) ]

\* The gate of Cpu::cycle: at least one timer period has elapsed.
timer_gate(e) == e >= 1

\* Cpu::fetch: the big-endian word at the program counter, which then moves
\* past it.  An index outside the memory array panics before anything moves.
fetch(s) ==
    IF s.program_counter + 1 >= MEMORY_SIZE
    THEN [ opcode |-> 0, cpu |-> [ s EXCEPT !.aborted = TRUE ] ]
    ELSE [ opcode |-> s.memory[s.program_counter] * 256 + s.memory[s.program_counter + 1],
           cpu |-> [ s EXCEPT !.program_counter = s.program_counter + 2 ] ]

\* The column loop of display_opcode with every pixel wrapped around the
\* edges instead of clipped.
RECURSIVE draw_cols_wrap(_, _, _, _, _)
draw_cols_wrap(s, x, y, row, col) ==
    IF col = 8 THEN s
    ELSE
        LET sprite == s.memory[s.i + row]
            bit == (sprite \div (2 ^ (7 - col))) % 2
        IN  IF bit = 1
            THEN
                LET pixel == ((x + col) % DISPLAY_WIDTH)
                                + (DISPLAY_WIDTH * ((y + row) % DISPLAY_HEIGHT))
                IN  draw_cols_wrap(
                        [ s EXCEPT !.v[V_CARRY_FLAG] = IF s.display[pixel] THEN 1 ELSE @,
                                   !.display[pixel] = ~ @ ],
                        x, y, row, col + 1)
            ELSE draw_cols_wrap(s, x, y, row, col + 1)

\* The column loop of display_opcode with a flag that follows the latest
\* toggled pixel instead of staying set.
RECURSIVE draw_cols_latest(_, _, _, _, _)
draw_cols_latest(s, x, y, row, col) ==
    IF col = 8 THEN s
    ELSE
        LET sprite == s.memory[s.i + row]
            bit == (sprite \div (2 ^ (7 - col))) % 2
        IN  IF bit = 1 /\ x + col < DISPLAY_WIDTH /\ y + row < DISPLAY_HEIGHT
            THEN
                LET pixel == (x + col) + (DISPLAY_WIDTH * (y + row))
                IN  draw_cols_latest(
                        [ s EXCEPT !.v[V_CARRY_FLAG] = IF s.display[pixel] THEN 1 ELSE 0,
                                   !.display[pixel] = ~ @ ],
                        x, y, row, col + 1)
            ELSE draw_cols_latest(s, x, y, row, col + 1)

\* The column loop of Cpu::display_opcode, `for col in 0..8`, on one sprite
\* row: a 1-bit whose pixel is inside the display toggles it, and sets VF
\* when the pixel was lit.
RECURSIVE draw_cols(_, _, _, _, _)
draw_cols(s, x, y, row, col) ==
    IF col = 8 THEN s
    ELSE
        LET sprite == s.memory[s.i + row]
            bit == (sprite \div (2 ^ (7 - col))) % 2
        IN  IF bit = 1 /\ x + col < DISPLAY_WIDTH /\ y + row < DISPLAY_HEIGHT
            THEN
                LET pixel == (x + col) + (DISPLAY_WIDTH * (y + row))
                IN  draw_cols(
                        [ s EXCEPT !.v[V_CARRY_FLAG] = IF s.display[pixel] THEN 1 ELSE @,
                                   !.display[pixel] = ~ @ ],
                        x, y, row, col + 1)
            ELSE draw_cols(s, x, y, row, col + 1)

\* The row loop of Cpu::display_opcode, `for row in 0..height`.  Reading a
\* sprite row outside the memory array panics with the rows above it drawn.
RECURSIVE draw_rows(_, _, _, _, _)
draw_rows(s, x, y, height, row) ==
    IF row = height THEN s
    ELSE IF s.i + row >= MEMORY_SIZE THEN [ s EXCEPT !.aborted = TRUE ]
    ELSE draw_rows(draw_cols(s, x, y, row, 0), x, y, height, row + 1)

\* display_opcode without the clearing of VF before the loops.
display_opcode_keep_flag(s, x, y, height) ==
    LET drawn == draw_rows(s, x % DISPLAY_WIDTH, y % DISPLAY_HEIGHT, height, 0)
    IN  IF drawn.aborted THEN drawn
        ELSE [ drawn EXCEPT !.display_modified = TRUE ]

\* Cpu::display_opcode
display_opcode(s, x, y, height) ==
    LET drawn == draw_rows([ s EXCEPT !.v[V_CARRY_FLAG] = 0 ],
                           x % DISPLAY_WIDTH, y % DISPLAY_HEIGHT, height, 0)
    IN  IF drawn.aborted THEN drawn
        ELSE [ drawn EXCEPT !.display_modified = TRUE ]

\* Opcode FX33: the three decimal digits of vx stored at i, i+1, i+2, each
\* store panicking when its index is outside the memory array.
store_bcd(s, vx) ==
    IF s.i >= MEMORY_SIZE THEN [ s EXCEPT !.aborted = TRUE ]
    ELSE IF s.i + 1 >= MEMORY_SIZE
    THEN [ s EXCEPT !.memory[s.i] = (vx \div 100) % 10, !.aborted = TRUE ]
    ELSE IF s.i + 2 >= MEMORY_SIZE
    THEN [ s EXCEPT !.memory[s.i] = (vx \div 100) % 10,
                    !.memory[s.i + 1] = (vx \div 10) % 10,
                    !.aborted = TRUE ]
    ELSE [ s EXCEPT !.memory[s.i] = (vx \div 100) % 10,
                    !.memory[s.i + 1] = (vx \div 10) % 10,
                    !.memory[s.i + 2] = vx % 10 ]

\* FX55 storing downwards from i: v[index] at i - index.
RECURSIVE store_regs_down(_, _, _)
store_regs_down(s, x, index) ==
    IF index > x THEN s
    ELSE IF s.i - index < 0 \/ s.i - index >= MEMORY_SIZE THEN [ s EXCEPT !.aborted = TRUE ]
    ELSE store_regs_down([ s EXCEPT !.memory[s.i - index] = s.v[index] ], x, index + 1)

\* Opcode FX55: the loop `for index in 0..=x` storing v[index] at i + index.
RECURSIVE store_regs(_, _, _)
store_regs(s, x, index) ==
    IF index > x THEN s
    ELSE IF s.i + index >= MEMORY_SIZE THEN [ s EXCEPT !.aborted = TRUE ]
    ELSE store_regs([ s EXCEPT !.memory[s.i + index] = s.v[index] ], x, index + 1)

\* FX65 with the loop `for index in 0..x`, which leaves out v[x].
RECURSIVE load_regs_exclusive(_, _, _)
load_regs_exclusive(s, x, index) ==
    IF index >= x THEN s
    ELSE IF s.i + index >= MEMORY_SIZE THEN [ s EXCEPT !.aborted = TRUE ]
    ELSE load_regs_exclusive([ s EXCEPT !.v[index] = s.memory[s.i + index] ], x, index + 1)

\* Opcode FX65: the loop `for index in 0..=x` loading v[index] from i + index.
RECURSIVE load_regs(_, _, _)
load_regs(s, x, index) ==
    IF index > x THEN s
    ELSE IF s.i + index >= MEMORY_SIZE THEN [ s EXCEPT !.aborted = TRUE ]
    ELSE load_regs([ s EXCEPT !.v[index] = s.memory[s.i + index] ], x, index + 1)

\* The position of the last pressed key instead of the first.
position_pressed_last(keys) ==
    IF \E k \in 0..(KEY_COUNT - 1) : keys[k]
    THEN CHOOSE k \in 0..(KEY_COUNT - 1) :
            keys[k] /\ \A j \in (k + 1)..(KEY_COUNT - 1) : ~ keys[j]
    ELSE -1

\* Opcode FX0A: `pressed_keys.iter().position(|x| x == &true)`, or -1 for None.
position_pressed(keys) ==
    IF \E k \in 0..(KEY_COUNT - 1) : keys[k]
    THEN CHOOSE k \in 0..(KEY_COUNT - 1) :
            keys[k] /\ \A j \in 0..(k - 1) : ~ keys[j]
    ELSE -1

\* 8XY4 with the two stores in the other order: the sum lands last.
add_vx_vy_sum_last(s, x, vx, vy) ==
    LET r == overflowing_add(vx, vy)
    IN  [ s EXCEPT !.v = [ [ @ EXCEPT ![V_CARRY_FLAG] = bool_as_u8(r[2]) ]
                           EXCEPT ![x] = r[1] ] ]

\* Opcode 8XY4
add_vx_vy(s, x, vx, vy) ==
    LET r == overflowing_add(vx, vy)
    IN  [ s EXCEPT !.v = [ [ @ EXCEPT ![x] = r[1] ]
                           EXCEPT ![V_CARRY_FLAG] = bool_as_u8(r[2]) ] ]

\* Opcode 8XY5
sub_vx_vy(s, x, vx, vy) ==
    LET r == overflowing_sub(vx, vy)
    IN  [ s EXCEPT !.v = [ [ @ EXCEPT ![x] = r[1] ]
                           EXCEPT ![V_CARRY_FLAG] = bool_as_u8(~ r[2]) ] ]

\* 8XY6 taking the flag from the shifted value.
shr_vx_flag_after(s, x, vx) ==
    [ s EXCEPT !.v = [ [ @ EXCEPT ![x] = shr1(vx) ]
                       EXCEPT ![V_CARRY_FLAG] = BitAnd(shr1(vx), 1) ] ]

\* Opcode 8XY6
shr_vx(s, x, vx) ==
    [ s EXCEPT !.v = [ [ @ EXCEPT ![x] = shr1(vx) ]
                       EXCEPT ![V_CARRY_FLAG] = BitAnd(vx, 1) ] ]

\* Opcode 8XY7
subn_vx_vy(s, x, vx, vy) ==
    LET r == overflowing_sub(vy, vx)
    IN  [ s EXCEPT !.v = [ [ @ EXCEPT ![x] = r[1] ]
                           EXCEPT ![V_CARRY_FLAG] = bool_as_u8(~ r[2]) ] ]

\* Opcode 8XYE
shl_vx(s, x, vx) ==
    [ s EXCEPT !.v = [ [ @ EXCEPT ![x] = shl1(vx) ]
                       EXCEPT ![V_CARRY_FLAG] = IF BitAnd(vx, \H80) = 0 THEN 0 ELSE 1 ] ]

\* 00EE that restarts the program on an empty stack instead of panicking.
return_op_guess(s) ==
    IF s.stack = << >> THEN [ s EXCEPT !.program_counter = PROGRAM_COUNTER_START ]
    ELSE [ s EXCEPT !.program_counter = s.stack[Len(s.stack)],
                    !.stack = SubSeq(s.stack, 1, Len(s.stack) - 1) ]

\* Opcode 00EE: `stack.pop().unwrap()` panics on an empty stack.
return_op(s) ==
    IF s.stack = << >> THEN [ s EXCEPT !.aborted = TRUE ]
    ELSE [ s EXCEPT !.program_counter = s.stack[Len(s.stack)],
                    !.stack = SubSeq(s.stack, 1, Len(s.stack) - 1) ]

\* 2NNN on a stack of sixteen slots: a call at depth 16 pushes nothing.
call_op_sixteen(s, nnn) ==
    [ s EXCEPT !.stack = IF Len(s.stack) >= 16 THEN @ ELSE Append(@, s.program_counter),
               !.program_counter = nnn ]

\* Opcode 2NNN
call_op(s, nnn) ==
    [ s EXCEPT !.stack = Append(s.stack, s.program_counter),
               !.program_counter = nnn ]

\* FX0A that clears Vx while it waits.
wait_key_clear(s, x) ==
    LET index == position_pressed(s.pressed_keys)
    IN  IF index >= 0 THEN [ s EXCEPT !.v[x] = index ]
        ELSE [ s EXCEPT !.v[x] = 0, !.program_counter = s.program_counter - 2 ]

\* Opcode FX0A
wait_key(s, x) ==
    LET index == position_pressed(s.pressed_keys)
    IN  IF index >= 0 THEN [ s EXCEPT !.v[x] = index ]
        ELSE [ s EXCEPT !.program_counter = s.program_counter - 2 ]

\* Opcodes EX9E (want = TRUE) and EXA1 (want = FALSE): indexing pressed_keys
\* with vx panics when vx is not a key index.
skip_key(s, vx, want) ==
    IF vx >= KEY_COUNT THEN [ s EXCEPT !.aborted = TRUE ]
    ELSE IF s.pressed_keys[vx] = want
    THEN [ s EXCEPT !.program_counter = s.program_counter + 2 ]
    ELSE s

\* A taken skip of 3XNN, 4XNN, 5XY0, 9XY0.
skip_if(s, cond) ==
    IF cond THEN [ s EXCEPT !.program_counter = s.program_counter + 2 ] ELSE s

\* An unmatched opcode treated as fatal.
unsupported_opcode_fatal(s, opcode) == [ s EXCEPT !.aborted = TRUE ]

\* The default arm of the match in Cpu::process_opcode: the word is printed
\* and nothing else happens.
unsupported_opcode(s, opcode) == s

\* Cpu::process_opcode: s is the machine after the fetch, rnd the byte that
\* rand::random::<u8>() returns.
process_opcode(s, opcode, rnd) ==
    LET op_1 == opcode \div 4096
        op_2 == (opcode \div 256) % 16
        op_3 == (opcode \div 16) % 16
        op_4 == opcode % 16
        x == (opcode \div 256) % 16
        vx == s.v[x]
        y == (opcode \div 16) % 16
        vy == s.v[y]
        nnn == opcode % 4096
        nn == opcode % 256
        n == opcode % 16
    IN  CASE op_1 = 0 /\ op_2 = 0 /\ op_3 = 14 /\ op_4 = 0 ->
                [ s EXCEPT !.display = [ p \in DOMAIN s.display |-> FALSE ],
                           !.display_modified = TRUE ]
          [] op_1 = 0 /\ op_2 = 0 /\ op_3 = 14 /\ op_4 = 14 -> return_op(s)
          [] op_1 = 1 -> [ s EXCEPT !.program_counter = nnn ]
          [] op_1 = 2 -> call_op(s, nnn)
          [] op_1 = 3 -> skip_if(s, vx = nn)
          [] op_1 = 4 -> skip_if(s, vx # nn)
          [] op_1 = 5 /\ op_4 = 0 -> skip_if(s, vx = vy)
          [] op_1 = 6 -> [ s EXCEPT !.v[x] = nn ]
          [] op_1 = 7 -> [ s EXCEPT !.v[x] = wrapping_add(vx, nn) ]
          [] op_1 = 8 /\ op_4 = 0 -> [ s EXCEPT !.v[x] = vy ]
          [] op_1 = 8 /\ op_4 = 1 -> [ s EXCEPT !.v[x] = BitOr(vx, vy) ]
          [] op_1 = 8 /\ op_4 = 2 -> [ s EXCEPT !.v[x] = BitAnd(vx, vy) ]
          [] op_1 = 8 /\ op_4 = 3 -> [ s EXCEPT !.v[x] = BitXor(vx, vy) ]
          [] op_1 = 8 /\ op_4 = 4 -> add_vx_vy(s, x, vx, vy)
          [] op_1 = 8 /\ op_4 = 5 -> sub_vx_vy(s, x, vx, vy)
          [] op_1 = 8 /\ op_4 = 6 -> shr_vx(s, x, vx)
          [] op_1 = 8 /\ op_4 = 7 -> subn_vx_vy(s, x, vx, vy)
          [] op_1 = 8 /\ op_4 = 14 -> shl_vx(s, x, vx)
          [] op_1 = 9 /\ op_4 = 0 -> skip_if(s, vx # vy)
          [] op_1 = 10 -> [ s EXCEPT !.i = nnn ]
          [] op_1 = 11 -> [ s EXCEPT !.program_counter = nnn + s.v[0] ]
          [] op_1 = 12 -> [ s EXCEPT !.v[x] = BitAnd(rnd, nn) ]
          [] op_1 = 13 -> display_opcode(s, vx, vy, n)
          [] op_1 = 14 /\ op_3 = 9 /\ op_4 = 14 -> skip_key(s, vx, TRUE)
          [] op_1 = 14 /\ op_3 = 10 /\ op_4 = 1 -> skip_key(s, vx, FALSE)
          [] op_1 = 15 /\ op_3 = 0 /\ op_4 = 7 -> [ s EXCEPT !.v[x] = s.delay_timer ]
          [] op_1 = 15 /\ op_3 = 0 /\ op_4 = 10 -> wait_key(s, x)
          [] op_1 = 15 /\ op_3 = 1 /\ op_4 = 5 -> [ s EXCEPT !.delay_timer = s.v[x] ]
          [] op_1 = 15 /\ op_3 = 1 /\ op_4 = 8 -> [ s EXCEPT !.sound_timer = s.v[x] ]
          [] op_1 = 15 /\ op_3 = 1 /\ op_4 = 14 ->
                [ s EXCEPT !.i = wrapping_add16(s.i, vx) ]
          [] op_1 = 15 /\ op_3 = 2 /\ op_4 = 9 ->
                [ s EXCEPT !.i = FONT_START + (FONT_HEIGHT * BitAnd(vx, \H0F)) ]
          [] op_1 = 15 /\ op_3 = 3 /\ op_4 = 3 -> store_bcd(s, vx)
          [] op_1 = 15 /\ op_3 = 5 /\ op_4 = 5 -> store_regs(s, x, 0)
          [] op_1 = 15 /\ op_3 = 6 /\ op_4 = 5 -> load_regs(s, x, 0)
          [] OTHER -> unsupported_opcode(s, opcode)

\* ------------------------------------------------------------- actions
\* The word the coming fetch reads (0 when the fetch would panic).
next_opcode == fetch(Cpu).opcode

\* The values rand::random::<u8>() can return to the coming cycle; the call is
\* made by opcode CXNN only.
rand_random == IF next_opcode \div 4096 = 12 THEN 0..255 ELSE { 0 }

\* Cpu::cycle: the timer gate, the fetch and the dispatch.  A panic in the
\* fetch ends the cycle there.
cycle(s, e, rnd) ==
    LET gated == IF timer_gate(e) THEN process_timers(s) ELSE s
        f == fetch(gated)
    IN  IF f.cpu.aborted THEN f.cpu ELSE process_opcode(f.cpu, f.opcode, rnd)

\* What `last` remembers of a cycle: the machine it started from (its memory
\* left out), the word it fetched and the time it read.  Its field `keys` is
\* the argument of the latest set_keys call (empty before the first call);
\* its field `sound` is the log of the sound timer, kept by sound_log.
snapshot(s, e) ==
    [ kind |-> "cycle",
      opcode |-> fetch(s).opcode,
      fetched |-> ~ fetch(s).cpu.aborted,
      pc |-> s.program_counter,
      i |-> s.i,
      v |-> s.v,
      stack |-> s.stack,
      delay_timer |-> s.delay_timer,
      sound_timer |-> s.sound_timer,
      display |-> s.display,
      pressed_keys |-> s.pressed_keys,
      elapsed |-> e,
      keys |-> << >>,
      sound |-> [ armed |-> FALSE, k |-> 0, ticks |-> 0 ] ]

\* The log of the sound timer after a cycle of machine s: the value k the
\* latest FX18 stored and the timer-gate firings since (counted up to
\* MaxTicks); not armed before the first FX18.
sound_log(log, s, e) ==
    LET f == fetch(s)
    IN  IF ~ f.cpu.aborted /\ f.opcode \div 4096 = 15 /\ f.opcode % 256 = \H18
        THEN [ armed |-> TRUE, k |-> s.v[(f.opcode \div 256) % 16], ticks |-> 0 ]
        ELSE IF log.armed /\ timer_gate(e) /\ log.ticks < MaxTicks
        THEN [ log EXCEPT !.ticks = @ + 1 ]
        ELSE log

\* One call of cpu.cycle(), `e` whole timer periods after prev_timer_time.
\* A firing gate sets prev_timer_time to now, so the next call reads a fresh
\* elapsed time.
Cycle ==
    /\ ~ aborted
    /\ \E e \in 0..MaxElapsed, rnd \in rand_random :
        LET done == cycle(Cpu, e, rnd)
        IN  /\ last' = [ snapshot(Cpu, e) EXCEPT !.keys = last.keys,
                                                 !.sound = sound_log(last.sound, Cpu, e) ]
            /\ Len(done.stack) <= MaxStack
            /\ memory' = done.memory
            /\ program_counter' = done.program_counter
            /\ i' = done.i
            /\ v' = done.v
            /\ stack' = done.stack
            /\ delay_timer' = done.delay_timer
            /\ sound_timer' = done.sound_timer
            /\ display' = done.display
            /\ display_modified' = done.display_modified
            /\ pressed_keys' = done.pressed_keys
            /\ aborted' = done.aborted

\* set_keys without the clearing of the table: keys pressed before stay so.
set_keys_keep(keys) ==
    [ k \in 0..(KEY_COUNT - 1) |->
        pressed_keys[k] \/ \E j \in 1..Len(keys) : keys[j] < KEY_COUNT /\ keys[j] = k ]

\* The step is a call of cycle() (one that changed anything): `last` has a
\* new snapshot under the same set_keys argument.
CycleStep == last' # last /\ last'.keys = last.keys

\* Cpu::set_keys: the table is cleared, then every key below KEY_COUNT is set.
set_keys(keys) ==
    [ k \in 0..(KEY_COUNT - 1) |->
        \E j \in 1..Len(keys) : keys[j] < KEY_COUNT /\ keys[j] = k ]

\* The key snapshots the host reports (main.rs maps at most sixteen keys; the
\* interface takes any usize).
KeyInputs == { << >>, << 3, 1, 16 >> }

\* One call of cpu.set_keys(keys).
SetKeys ==
    /\ ~ aborted
    /\ \E keys \in KeyInputs :
        /\ pressed_keys' = set_keys(keys)
        /\ last' = [ last EXCEPT !.keys = keys ]
    /\ UNCHANGED << memory, program_counter, i, v, stack, delay_timer, sound_timer,
                    display, display_modified, aborted >>

Next == Cycle \/ SetKeys

\* ------------------------------------------------------------ programs
\* A rom file holding the given instruction words, big-endian.
Assemble(words) ==
    [ k \in 1..(2 * Len(words)) |->
        IF k % 2 = 1 THEN words[(k + 1) \div 2] \div 256 ELSE words[k \div 2] % 256 ]

\* The address of the n-th instruction word (n from 0) of a rom.
Addr(n) == PROGRAM_COUNTER_START + 2 * n

\* Instruction words.
JP(nnn) == \H1000 + nnn
CALL(nnn) == \H2000 + nnn
LD(x, nn) == \H6000 + 256 * x + nn
ALU(x, y, n) == \H8000 + 256 * x + 16 * y + n
LDI(nnn) == \HA000 + nnn
DRW(x, y, n) == \HD000 + 256 * x + 16 * y + n
FX(x, nn) == \HF000 + 256 * x + nn
RET == \H00EE

\* The machine as constructed from one of the roms.
InitWith(roms) ==
    \E rom \in roms :
        LET s == new(rom)
        IN  /\ memory = s.memory
            /\ program_counter = s.program_counter
            /\ i = s.i
            /\ v = s.v
            /\ stack = s.stack
            /\ delay_timer = s.delay_timer
            /\ sound_timer = s.sound_timer
            /\ display = s.display
            /\ display_modified = s.display_modified
            /\ pressed_keys = s.pressed_keys
            /\ aborted = s.aborted
            /\ last = [ snapshot(s, 0) EXCEPT !.kind = "new" ]

\* Byte values at the edges of the 8-bit range.
ByteSamples == { 0, 1, 128, 255 }

\* Register pairs (x, y): distinct, the flag register as either operand, equal.
RegPairs == { << 0, 1 >>, << 15, 1 >>, << 1, 15 >>, << 15, 15 >> }

\* The opcodes 8XYn with a flag side effect.
FlagOps == { 4, 5, 6, 7, 14 }

\* Roms that put 7 in VF, a in Vx and b in Vy, execute one 8XYn and halt in a
\* jump to itself.
AluRoms ==
    { Assemble(<< LD(15, 7), LD(xy[1], a), LD(xy[2], b), ALU(xy[1], xy[2], n), JP(Addr(4)) >>) :
        xy \in RegPairs, a \in ByteSamples, b \in ByteSamples, n \in FlagOps }

\* Roms that draw the glyph "0" twice at (Vx, V1), VF set to 7 before each
\* draw; x is 0 or the flag register itself.
FlagDrawRoms ==
    { Assemble(<< LD(15, 7), LD(x, a), LDI(FONT_START), DRW(x, 1, 5),
                  LD(15, 7), LD(x, a), DRW(x, 1, 5), JP(Addr(7)) >>) :
        x \in { 0, 15 }, a \in { 0, 62 } }

InitFlags == InitWith(AluRoms \cup FlagDrawRoms)

SpecFlags == InitFlags /\ [][Next]_vars

\* ------------------------------------------------- the latest cycle
\* The latest cycle fetched a word and ran it to the end.
Ran == last.kind = "cycle" /\ last.fetched /\ ~ aborted

LastOp1 == last.opcode \div 4096
LastX == (last.opcode \div 256) % 16
LastY == (last.opcode \div 16) % 16
LastN == last.opcode % 16
LastNN == last.opcode % 256
LastNNN == last.opcode % 4096

\* The latest cycle ran opcode 8XYn.
Ran8(n) == Ran /\ LastOp1 = 8 /\ LastN = n

\* The operands Vx and Vy as that cycle found them.
LastVx == last.v[LastX]
LastVy == last.v[LastY]

Flag(b) == IF b THEN 1 ELSE 0

\* Bit c, most significant first, of a byte.
BitOf(byte, c) == (byte \div (2 ^ (7 - c))) % 2

\* The latest cycle ran a draw DXYN; its origin; the pixels its 1-bits target
\* inside the display; whether one of them was lit before the draw.
RanDraw == Ran /\ LastOp1 = 13
OriginX == LastVx % DISPLAY_WIDTH
OriginY == LastVy % DISPLAY_HEIGHT
Targets ==
    { (OriginX + rc[2]) + DISPLAY_WIDTH * (OriginY + rc[1]) :
        rc \in { q \in (0..(LastN - 1)) \X (0..7) :
                    /\ BitOf(memory[last.i + q[1]], q[2]) = 1
                    /\ OriginX + q[2] < DISPLAY_WIDTH
                    /\ OriginY + q[1] < DISPLAY_HEIGHT } }
Collision == \E p \in Targets : last.display[p]

\* --------------------------------------------------------------- claims
\* C1 as stated: after 8XY4, for every register pair including x = 15,
\* VF = 1 iff a + b > 255 and Vx = (a + b) mod 256.
C1_AddAsStated ==
    Ran8(4) =>
        /\ v[V_CARRY_FLAG] = Flag(LastVx + LastVy > 255)
        /\ v[LastX] = (LastVx + LastVy) % 256

\* C1 amended: after 8XY4, VF = 1 iff a + b > 255 (else 0) for every register
\* pair, and Vx = (a + b) mod 256 when x is not 15 (when x = 15 the flag
\* is what VF keeps).
C1_AddCarry ==
    Ran8(4) =>
        /\ v[V_CARRY_FLAG] = Flag(LastVx + LastVy > 255)
        /\ LastX # V_CARRY_FLAG => v[LastX] = (LastVx + LastVy) % 256

\* An add into VF itself that overflowed: 255 + 255 leaves the flag 1, not 254.
C1_Witness ==
    /\ Ran8(4) /\ LastX = V_CARRY_FLAG
    /\ LastVx = 255 /\ LastVy = 255
    /\ v[V_CARRY_FLAG] = 1

\* C2 as stated: after 8XY5, VF = 1 iff a >= b and Vx = (a - b) mod 256; after
\* 8XY7, VF = 1 iff b >= a and Vx = (b - a) mod 256.
C2_SubAsStated ==
    /\ Ran8(5) =>
        /\ v[V_CARRY_FLAG] = Flag(LastVx >= LastVy)
        /\ v[LastX] = (LastVx - LastVy) % 256
    /\ Ran8(7) =>
        /\ v[V_CARRY_FLAG] = Flag(LastVy >= LastVx)
        /\ v[LastX] = (LastVy - LastVx) % 256

\* C2 amended: the flags as stated; the differences as stated when x is not 15
\* (when x = 15 the flag is what VF keeps).
C2_SubBorrow ==
    /\ Ran8(5) =>
        /\ v[V_CARRY_FLAG] = Flag(LastVx >= LastVy)
        /\ LastX # V_CARRY_FLAG => v[LastX] = (LastVx - LastVy) % 256
    /\ Ran8(7) =>
        /\ v[V_CARRY_FLAG] = Flag(LastVy >= LastVx)
        /\ LastX # V_CARRY_FLAG => v[LastX] = (LastVy - LastVx) % 256

\* A subtraction that borrowed: 1 - 255 leaves 2 in V0 and 0 in VF.
C2_Witness ==
    /\ Ran8(5) /\ LastX = 0
    /\ LastVx = 1 /\ LastVy = 255
    /\ v[0] = 2 /\ v[V_CARRY_FLAG] = 0

\* C3 as stated: after 8XY6, VF = v & 1 and Vx = v >> 1; after 8XYE, VF = 1
\* iff bit 7 of v is set and Vx = (v << 1) mod 256; Vy plays no part.
C3_ShiftAsStated ==
    /\ Ran8(6) =>
        /\ v[V_CARRY_FLAG] = LastVx % 2
        /\ v[LastX] = LastVx \div 2
    /\ Ran8(14) =>
        /\ v[V_CARRY_FLAG] = Flag(LastVx >= 128)
        /\ v[LastX] = (2 * LastVx) % 256

\* C3 amended: the flags as stated; the shifted values as stated when x is not
\* 15 (when x = 15 the flag is what VF keeps).
C3_ShiftFlag ==
    /\ Ran8(6) =>
        /\ v[V_CARRY_FLAG] = LastVx % 2
        /\ LastX # V_CARRY_FLAG => v[LastX] = LastVx \div 2
    /\ Ran8(14) =>
        /\ v[V_CARRY_FLAG] = Flag(LastVx >= 128)
        /\ LastX # V_CARRY_FLAG => v[LastX] = (2 * LastVx) % 256

\* A right shift of 255 with Vy = 0: V0 = 127 and VF = 1, the bit shifted out.
C3_Witness ==
    /\ Ran8(6) /\ LastX = 0
    /\ LastVx = 255 /\ LastVy = 0
    /\ v[0] = 127 /\ v[V_CARRY_FLAG] = 1

\* C4: after 8XY4, 8XY5, 8XY6, 8XY7, 8XYE and DXYN, VF holds the opcode's flag
\* (0 or 1) whatever it held before, also when x = 15.
C4_FlagOverwritten ==
    /\ Ran8(4) => v[V_CARRY_FLAG] = Flag(LastVx + LastVy > 255)
    /\ Ran8(5) => v[V_CARRY_FLAG] = Flag(LastVx >= LastVy)
    /\ Ran8(6) => v[V_CARRY_FLAG] = LastVx % 2
    /\ Ran8(7) => v[V_CARRY_FLAG] = Flag(LastVy >= LastVx)
    /\ Ran8(14) => v[V_CARRY_FLAG] = Flag(LastVx >= 128)
    /\ RanDraw => v[V_CARRY_FLAG] = Flag(Collision)
    /\ (RanDraw \/ (Ran /\ LastOp1 = 8 /\ LastN \in FlagOps)) => v[V_CARRY_FLAG] \in { 0, 1 }

\* A draw that found VF = 7 and a lit pixel under the sprite: VF is 1.
C4_Witness ==
    /\ RanDraw /\ last.v[V_CARRY_FLAG] = 7 /\ LastX # V_CARRY_FLAG
    /\ Collision
    /\ v[V_CARRY_FLAG] = 1

\* ----------------------------------------------------- memory stores
\* Where the stores point: the reserved area, the font table, the last two
\* reserved bytes, the start of the program and past it.
StoreTargets == { \H000, \H050, \H1FE, \H200, \H300 }

\* Roms that set I, put b in V0 and 9 in V1, execute one of store-BCD V0,
\* store-regs V0..V1 and load-regs V0..V1, and halt.
MemRoms ==
    { Assemble(<< LDI(nnn), LD(0, b), LD(1, 9), op, JP(Addr(4)) >>) :
        nnn \in StoreTargets, b \in { 7, 234 },
        op \in { FX(0, \H33), FX(1, \H55), FX(1, \H65) } }

InitMem == InitWith(MemRoms)

SpecMem == InitMem /\ [][Next]_vars

\* The byte Cpu::new leaves at an address below the program.
Constructed(a) ==
    IF a >= FONT_START /\ a < FONT_START + Len(FONTS) THEN FONTS[a - FONT_START + 1] ELSE 0

LowAddresses == 0..(PROGRAM_COUNTER_START - 1)

\* C5 as stated: memory[0x000..0x1FF] always equals its value at construction.
C5_LowMemoryNeverWritten == \A a \in LowAddresses : memory[a] = Constructed(a)

\* The coming cycle executes store-BCD or store-regs.
FetchesStore ==
    /\ ~ fetch(Cpu).cpu.aborted
    /\ next_opcode \div 4096 = 15
    /\ next_opcode % 256 \in { \H33, \H55 }

\* C5 amended: a byte below 0x200 changes only in a cycle that executes
\* store-BCD (FX33) or store-regs (FX55) with I below 0x200; every other
\* cycle, those two with I at 0x200 or above, and set_keys leave
\* memory[0x000..0x1FF] as it was.
C5_LowMemoryWrittenOnlyByStores ==
    [][ (\E a \in LowAddresses : memory'[a] # memory[a]) => (FetchesStore /\ i < PROGRAM_COUNTER_START)
      ]_vars

\* Store-BCD of 234 at I = 0x200 has written 2, 3, 4 there and left the bytes
\* below 0x200 as constructed.
C5_Witness ==
    /\ Ran /\ LastOp1 = 15 /\ LastNN = \H33
    /\ last.i = PROGRAM_COUNTER_START
    /\ memory[\H200] = 2 /\ memory[\H201] = 3 /\ memory[\H202] = 4
    /\ \A a \in LowAddresses : memory[a] = Constructed(a)

\* ------------------------------------------------------------ wait-key
\* Roms that put 9 in Vx and t in the delay timer, then wait for a key in Vx
\* and halt.
KeyRoms ==
    { Assemble(<< LD(x, 9), LD(2, t), FX(2, \H15), FX(x, \H0A), JP(Addr(4)) >>) :
        x \in { 0, 5, 15 }, t \in { 0, 3 } }

InitKeys == InitWith(KeyRoms)

SpecKeys == InitKeys /\ [][Next]_vars

\* The latest cycle ran wait-key FX0A; the keys that were pressed then.
RanWaitKey == Ran /\ LastOp1 = 15 /\ LastNN = \H0A
LastPressed == { k \in 0..(KEY_COUNT - 1) : last.pressed_keys[k] }

\* C6: a cycle executing FX0A with no key pressed leaves the program counter
\* at that FX0A, which the next cycle fetches again; with a key pressed it
\* loads the lowest pressed index into Vx and ends 2 past the instruction.
C6_WaitKey ==
    RanWaitKey =>
        IF LastPressed = { }
        THEN /\ program_counter = last.pc
             /\ next_opcode = last.opcode
             /\ v = last.v
        ELSE /\ \A k \in LastPressed : v[LastX] <= k
             /\ v[LastX] \in LastPressed
             /\ program_counter = last.pc + 2

\* After set_keys([3, 1, 16]) the wait-key has loaded 1 over the 9 in Vx and
\* moved on.
C6_Witness ==
    /\ RanWaitKey
    /\ LastPressed = { 1, 3 }
    /\ LastVx = 9 /\ v[LastX] = 1
    /\ program_counter = last.pc + 2

\* ----------------------------------------------------- call and return
\* A subroutine that calls itself V0 - 1 times before it returns: depth
\* `depth` is reached, then every level returns.
NestedRom(depth) ==
    Assemble(<< LD(0, depth), CALL(Addr(3)), JP(Addr(2)),
                \H70FF, \H3000, CALL(Addr(3)), RET >>)

\* A call into itself, which never returns.
RunawayRom == Assemble(<< CALL(Addr(0)) >>)

\* Two subroutines, the first calling the second.
ChainRom == Assemble(<< CALL(Addr(3)), CALL(Addr(5)), JP(Addr(2)), CALL(Addr(5)), RET, RET >>)

CallRoms == { NestedRom(1), NestedRom(2), NestedRom(17), RunawayRom, ChainRom }

InitCalls == InitWith(CallRoms)

SpecCalls == InitCalls /\ [][Next]_vars

\* The instruction word stored at an address.
WordAt(a) == memory[a] * 256 + memory[a + 1]

\* C7: a call at p pushes p + 2 and jumps to nnn; a return pops the latest
\* pushed address into the program counter, which is the address following a
\* call; no other opcode touches the stack, so its depth is calls minus
\* returns, at any depth.
C7_CallReturn ==
    /\ (Ran /\ LastOp1 = 2) =>
            /\ stack = Append(last.stack, last.pc + 2)
            /\ program_counter = LastNNN
    /\ (Ran /\ last.opcode = RET) =>
            /\ last.stack # << >>
            /\ program_counter = last.stack[Len(last.stack)]
            /\ stack = SubSeq(last.stack, 1, Len(last.stack) - 1)
            /\ WordAt(program_counter - 2) \div 4096 = 2
    /\ (Ran /\ LastOp1 # 2 /\ last.opcode # RET) => stack = last.stack

\* The return from the seventeenth nested call: back to depth 16, at the
\* address after the call.
C7_Witness ==
    /\ Ran /\ last.opcode = RET
    /\ Len(last.stack) = 17
    /\ Len(stack) = 16
    /\ program_counter = last.stack[17]
    /\ WordAt(program_counter - 2) = CALL(Addr(3))

\* ---------------------------------------------------------------- draw
\* Roms that draw the glyph "0" at (0, 0), then draw n rows of the font table
\* twice at (Vx, V1) = (a, b), x being 0 or the flag register, and halt.
\* The origins lie inside the display, at its right and bottom edges and
\* beyond them.
DrawRoms ==
    { Assemble(<< LDI(FONT_START), DRW(2, 3, 5), LD(x, a), LD(1, b),
                  DRW(x, 1, n), DRW(x, 1, n), JP(Addr(6)) >>) :
        x \in { 0, 15 }, a \in { 0, 2, 62, 70 }, b \in { 0, 30, 40 }, n \in { 0, 5, 15 } }

InitDraw == InitWith(DrawRoms)

SpecDraw == InitDraw /\ [][Next]_vars

\* The coming step is a cycle that draws again what the latest cycle drew:
\* the same DXYN word, with Vx, Vy, I and the sprite bytes as that draw found
\* them.
DrawsAgain ==
    /\ RanDraw
    /\ CycleStep
    /\ ~ fetch(Cpu).cpu.aborted /\ next_opcode = last.opcode
    /\ i = last.i /\ v[LastX] = LastVx /\ v[LastY] = LastVy
    /\ ~ aborted'

\* C8 as stated: the second of two equal draws restores the display, and
\* leaves VF = 1 iff the sprite has a 1-bit whose target pixel is in bounds.
C8_DrawTwiceAsStated ==
    [][ DrawsAgain =>
            /\ display' = last.display
            /\ v'[V_CARRY_FLAG] = Flag(Targets # { })
      ]_vars

\* C8 amended: the second of two equal draws restores the display, and leaves
\* VF = 1 iff the sprite has an in-bounds 1-bit whose target pixel was off
\* before the first draw (on blank pixels: VF 0 after the first draw, 1 after
\* the second).
C8_DrawTwice ==
    [][ DrawsAgain =>
            /\ display' = last.display
            /\ v'[V_CARRY_FLAG] = Flag(\E p \in Targets : ~ last.display[p])
      ]_vars

\* The second of two equal draws of the glyph over its own image at (0, 0): the
\* first erased it, the second has drawn it again without a collision.
C8_Witness ==
    /\ RanDraw /\ WordAt(last.pc - 2) = last.opcode
    /\ LastX = 0 /\ LastVx = 0 /\ LastVy = 0 /\ LastN = 5
    /\ \A p \in Targets : display[p] /\ ~ last.display[p]
    /\ Targets # { }
    /\ v[V_CARRY_FLAG] = 0

\* C9: a draw toggles exactly the pixels (ox + c, oy + r) of its 1-bits with
\* ox = Vx mod 64, oy = Vy mod 32, ox + c < 64 and oy + r < 32; bits past the
\* right or bottom edge are dropped and every other pixel is unchanged.
C9_DrawClips ==
    RanDraw =>
        { p \in 0..(DISPLAY_WIDTH * DISPLAY_HEIGHT - 1) : display[p] # last.display[p] }
            = Targets

\* Five rows drawn from the origin (70 mod 64, 30): two rows fit, the rest
\* is dropped and the top rows are untouched.
C9_Witness ==
    /\ RanDraw /\ LastVx = 70 /\ LastVy = 30 /\ LastN = 5
    /\ last.display = [ p \in 0..(DISPLAY_WIDTH * DISPLAY_HEIGHT - 1) |-> p \in { 0, 1, 2, 3, 64, 67, 128, 131, 192, 195, 256, 257, 258, 259 } ]
    /\ Cardinality(Targets) = 6
    /\ display[6 + DISPLAY_WIDTH * 30] /\ display[9 + DISPLAY_WIDTH * 31]
    /\ ~ display[6 + DISPLAY_WIDTH * 0]

\* -------------------------------------------------------------- timers
\* Roms that set the delay timer to k and the sound timer to m, then read the
\* delay timer into V2 for ever.
TimerRoms ==
    { Assemble(<< LD(0, k), FX(0, \H15), LD(1, m), FX(1, \H18), FX(2, \H07), JP(Addr(4)) >>) :
        k \in { 0, 1, 3 }, m \in { 0, 2 } }

InitTimers == InitWith(TimerRoms)

SpecTimers == InitTimers /\ [][Next]_vars

\* What the timer gate of the latest cycle makes of a timer value t: one less
\* when the gate fired on a nonzero t, t otherwise.
Gated(t) == IF last.elapsed >= 1 /\ t > 0 THEN t - 1 ELSE t

LastIsFX(nn) == LastOp1 = 15 /\ LastNN = nn

\* C10: the timers are never below 0, and one cycle's gate takes exactly 1 off
\* each nonzero timer when at least one period has elapsed (however many) and
\* nothing otherwise; the value is the one the cycle's opcode reads (FX07) and,
\* unless the opcode sets the timer (FX15, FX18), the one the cycle leaves.
C10_TimerGate ==
    /\ delay_timer >= 0 /\ sound_timer >= 0
    /\ last.kind = "cycle" =>
        /\ (Ran /\ LastIsFX(\H15)) \/ delay_timer = Gated(last.delay_timer)
        /\ (Ran /\ LastIsFX(\H18)) \/ sound_timer = Gated(last.sound_timer)
        /\ (Ran /\ LastIsFX(\H07)) => v[LastX] = Gated(last.delay_timer)

\* A cycle called two periods late: both timers fell by exactly 1, and the
\* opcode read the new delay value.
C10_Witness ==
    /\ Ran /\ LastIsFX(\H07) /\ last.elapsed = 2
    /\ last.delay_timer = 3 /\ delay_timer = 2 /\ v[2] = 2
    /\ last.sound_timer = 2 /\ sound_timer = 1

\* ------------------------------------------------------------ set_keys
\* C11: after set_keys(S) key k is pressed iff k is in S, whatever the table
\* held before and with the elements of S outside 0..15 ignored; the call
\* changes nothing else of the machine, and no cycle changes the table.
C11_SetKeys ==
    [][ /\ \A k \in 0..(KEY_COUNT - 1) :
                pressed_keys'[k] <=> \E j \in 1..Len(last'.keys) : last'.keys[j] = k
        /\ last'.keys # last.keys =>
                UNCHANGED << memory, program_counter, i, v, stack, delay_timer,
                             sound_timer, display, display_modified, aborted >>
      ]_vars

\* set_keys([]) after a cycle that ran with keys 1 and 3 pressed: no key is
\* pressed any more.
C11_Witness ==
    /\ last.kind = "cycle" /\ last.pressed_keys[1] /\ last.pressed_keys[3]
    /\ last.keys = << >>
    /\ \A k \in 0..(KEY_COUNT - 1) : ~ pressed_keys[k]

\* ------------------------------------------------------ unknown opcodes
\* Instruction words that match no opcode pattern.
UnknownWords ==
    { \H0000, \H0123, \H00E1, \H01E0, \H00EF, \H5011, \H9015, \H8018, \H801D, \H801F,
      \HE0A2, \HE19F, \HE09D, \HF0FF, \HF156, \HF000 }

\* Roms that set the timers to 5, VF to 9 and I to 0x123, draw a glyph, call a
\* subroutine whose first word is an unknown one, and halt after it.
UnknownRoms ==
    { Assemble(<< LD(0, 5), FX(0, \H15), FX(0, \H18), LD(15, 9), LDI(FONT_START),
                  DRW(1, 1, 5), CALL(Addr(7)), w, JP(Addr(8)) >>) :
        w \in UnknownWords }

InitUnknown == InitWith(UnknownRoms)

SpecUnknown == InitUnknown /\ [][Next]_vars

\* The opcode patterns of the instruction set: every other word is unknown.
KnownWord(w) ==
    LET op == w \div 4096
        n == w % 16
        nn == w % 256
    IN  \/ w \in { \H00E0, \H00EE }
        \/ op \in { 1, 2, 3, 4, 6, 7, 10, 11, 12, 13 }
        \/ op \in { 5, 9 } /\ n = 0
        \/ op = 8 /\ n \in { 0, 1, 2, 3, 4, 5, 6, 7, 14 }
        \/ op = 14 /\ nn \in { \H9E, \HA1 }
        \/ op = 15 /\ nn \in { \H07, \H0A, \H15, \H18, \H1E, \H29, \H33, \H55, \H65 }

\* The coming cycle fetches a word that matches no opcode pattern.
FetchesUnknown == ~ fetch(Cpu).cpu.aborted /\ ~ KnownWord(next_opcode)

\* What the timer gate of the step's cycle makes of a timer value t.
GatedNext(t) == IF last'.elapsed >= 1 /\ t > 0 THEN t - 1 ELSE t

\* C12: a cycle that fetches a word matching no opcode pattern does not abort
\* and changes nothing but the program counter, which advances by 2, and the
\* timers when the gate fires.
C12_UnknownOpcode ==
    [][ (CycleStep /\ FetchesUnknown) =>
            /\ ~ aborted'
            /\ program_counter' = program_counter + 2
            /\ delay_timer' = GatedNext(delay_timer)
            /\ sound_timer' = GatedNext(sound_timer)
            /\ UNCHANGED << memory, v, i, stack, display, display_modified, pressed_keys >>
      ]_vars

\* The unknown word 8XYF has been passed over with the timers running, VF,
\* I, the stack and the lit display as they were.
C12_Witness ==
    /\ Ran /\ last.opcode = \H801F /\ last.elapsed = 1
    /\ program_counter = last.pc + 2
    /\ last.delay_timer > 0 /\ delay_timer = last.delay_timer - 1
    /\ v[V_CARRY_FLAG] \in { 0, 1 } /\ v = last.v /\ i = FONT_START /\ Len(stack) = 1
    /\ display = last.display /\ \E p \in DOMAIN display : display[p]

\* -------------------------------------------------- return without call
\* Roms that return once more than they call: at once, after a few loads, and
\* after one and two balanced calls.
ReturnRoms ==
    { Assemble(<< RET >>),
      Assemble(<< CALL(Addr(1)), RET >>),
      Assemble(<< CALL(Addr(2)), RET, CALL(Addr(4)), RET, RET >>) }
    \cup { Assemble(<< LD(0, a), LD(1, a), CALL(Addr(4)), RET, RET >>) : a \in { 0, 1, 2 } }

InitReturns == InitWith(ReturnRoms)

SpecReturns == InitReturns /\ [][Next]_vars

\* The latest cycle fetched a return 00EE.
FetchedReturn == last.kind = "cycle" /\ last.fetched /\ last.opcode = RET

\* C13: a return on an empty stack aborts the machine, with the program
\* counter where the fetch left it and the stack still empty; a return on a
\* non-empty stack does not abort.
C13_EmptyReturnFatal ==
    FetchedReturn =>
        /\ aborted <=> last.stack = << >>
        /\ aborted =>
            /\ program_counter = last.pc + 2
            /\ stack = << >>

\* The second return after one call: the first went back to the address the
\* call pushed, the second found the stack empty and aborted.
C13_Witness ==
    /\ FetchedReturn /\ aborted
    /\ last.stack = << >>
    /\ last.pc = Addr(1) /\ WordAt(Addr(0)) = CALL(Addr(1))
    /\ program_counter = Addr(2)

\* ------------------------------------------------- opcodes without flag
\* Byte values with mixed bit patterns, and the edges of the range.
PlainSamples == { 0, \H0F, \H3C, 255 }

\* The opcodes 8XYn without a flag side effect.
PlainOps == { 0, 1, 2, 3 }

\* Add Vx,nn.
ADD(x, nn) == \H7000 + 256 * x + nn

\* Roms that put 7 in VF, a in Vx and b in Vy, execute one of 8XY0..8XY3 and
\* add Vx,b and halt; and the rom 6A05 7A03.
PlainRoms ==
    { Assemble(<< LD(15, 7), LD(xy[1], a), LD(xy[2], b),
                  IF n = 7 THEN ADD(xy[1], b) ELSE ALU(xy[1], xy[2], n),
                  JP(Addr(4)) >>) :
        xy \in RegPairs, a \in PlainSamples, b \in PlainSamples, n \in PlainOps \cup { 7 } }
    \cup { Assemble(<< LD(10, 5), ADD(10, 3), JP(Addr(2)) >>) }

InitPlain == InitWith(PlainRoms)

SpecPlain == InitPlain /\ [][Next]_vars

\* Bit c, least significant first, of a byte.
Bit(byte, c) == (byte \div (2 ^ c)) % 2

\* C14: add Vx,nn and 8XY0..8XY3 store (Vx + nn) mod 256, Vy, Vx|Vy, Vx&Vy,
\* Vx^Vy in Vx and change no other register, so VF is unchanged when x is
\* not 15.
C14_NoFlagEffect ==
    /\ (Ran /\ (LastOp1 = 7 \/ (LastOp1 = 8 /\ LastN \in PlainOps))) =>
            /\ \A r \in 0..(V_COUNT - 1) : r # LastX => v[r] = last.v[r]
            /\ LastX # V_CARRY_FLAG => v[V_CARRY_FLAG] = last.v[V_CARRY_FLAG]
            /\ v[LastX] \in 0..255
    /\ (Ran /\ LastOp1 = 7) => v[LastX] = (LastVx + LastNN) % 256
    /\ Ran8(0) => v[LastX] = LastVy
    /\ Ran8(1) => \A c \in 0..7 : Bit(v[LastX], c) = Flag(Bit(LastVx, c) = 1 \/ Bit(LastVy, c) = 1)
    /\ Ran8(2) => \A c \in 0..7 : Bit(v[LastX], c) = Flag(Bit(LastVx, c) = 1 /\ Bit(LastVy, c) = 1)
    /\ Ran8(3) => \A c \in 0..7 : Bit(v[LastX], c) = Flag(Bit(LastVx, c) # Bit(LastVy, c))

\* 6A05 followed by 7A03: VA = 8, VF as it was.
C14_Witness ==
    /\ Ran /\ last.opcode = ADD(10, 3) /\ WordAt(last.pc - 2) = LD(10, 5)
    /\ last.v[10] = 5 /\ v[10] = 8
    /\ v[V_CARRY_FLAG] = last.v[V_CARRY_FLAG]

\* ---------------------------------------------------------------- beep
\* C15: beep() is true iff the sound timer is nonzero; after FX18 has set the
\* sound timer to k, beep() is true while fewer than k timer-gate firings
\* have followed and false from the k-th on.
C15_Beep ==
    /\ beep <=> sound_timer # 0
    /\ (last.sound.armed /\ last.sound.ticks < MaxTicks) =>
            (beep <=> last.sound.ticks < last.sound.k)
    /\ (last.sound.armed /\ last.sound.ticks = MaxTicks /\ last.sound.k <= MaxTicks) =>
            ~ beep

\* The second gate firing after FX18 stored 2: the beep has just ended.
C15_Witness ==
    /\ last.sound.armed /\ last.sound.k = 2 /\ last.sound.ticks = 2
    /\ last.kind = "cycle" /\ last.elapsed >= 1 /\ last.sound_timer = 1
    /\ ~ beep

\* ------------------------------------------------------- memory bounds
\* Jump+offset and add I,Vx.
JPV0(nnn) == \HB000 + nnn

\* Roms that take the program counter or I to the end of the memory array
\* and past it: a jump to the last byte and to the last word, a jump+offset
\* past the array, and a draw, store-BCD, store-regs and load-regs at I near
\* the end of the array or moved past it by add I,Vx.
BoundsRoms ==
    { Assemble(<< JP(nnn) >>) : nnn \in { \HFFF, \HFFE, \HFFC } }
    \cup { Assemble(<< LD(0, a), JPV0(\HFFF) >>) : a \in { 0, 255 } }
    \cup { Assemble(<< LD(0, a), LD(1, 9), LDI(nnn), FX(0, \H1E), op, JP(Addr(5)) >>) :
            a \in { 0, 255 }, nnn \in { \HFFD, \HFFE, \HFFF },
            op \in { DRW(2, 2, 2), FX(1, \H33), FX(1, \H55), FX(1, \H65) } }

InitBounds == InitWith(BoundsRoms)

SpecBounds == InitBounds /\ [][Next]_vars

\* The latest cycle aborted on a memory index outside the array: in its fetch,
\* or in a draw, store-BCD, store-regs or load-regs.
AbortedOnMemory ==
    /\ aborted /\ last.kind = "cycle"
    /\ \/ ~ last.fetched
       \/ LastOp1 = 13
       \/ LastOp1 = 15 /\ LastNN \in { \H33, \H55, \H65 }

\* C16: no cycle aborts on a memory access outside 0..4095, whatever the
\* program.
C16_NoOutOfBounds == ~ AbortedOnMemory

\* A jump to 0xFFF: the fetch of the second byte, at index 0x1000, has aborted.
C16_Witness ==
    /\ AbortedOnMemory /\ ~ last.fetched
    /\ last.pc = \HFFF /\ WordAt(PROGRAM_COUNTER_START) = JP(\HFFF)

\* ------------------------------------------------------------ skip-key
\* Skip if key Vx pressed, skip if key Vx not pressed.
SKP(x) == \HE09E + 256 * x
SKNP(x) == \HE0A1 + 256 * x

\* Roms that put a in Vx, execute one skip-key opcode and halt at the word it
\* falls through to or at the one it skips to.
SkipRoms ==
    { Assemble(<< LD(x, a), IF want THEN SKP(x) ELSE SKNP(x), JP(Addr(2)), JP(Addr(3)) >>) :
        x \in { 0, 15 }, a \in { 1, 2, 15, 16, 255 }, want \in BOOLEAN }

InitSkips == InitWith(SkipRoms)

SpecSkips == InitSkips /\ [][Next]_vars

\* The latest cycle fetched a skip-key opcode: EX9E wants the key pressed, EXA1
\* not pressed.
FetchedSkipKey ==
    last.kind = "cycle" /\ last.fetched /\ LastOp1 = 14 /\ LastNN \in { \H9E, \HA1 }

\* Key Vx was pressed when that cycle ran (no key has an index above 15).
LastKeyPressed == LastVx < KEY_COUNT /\ last.pressed_keys[LastVx]

\* C17: for every Vx in 0..255, EX9E skips iff key Vx is pressed and EXA1 iff it
\* is not, and neither aborts.
C17_SkipKey ==
    FetchedSkipKey =>
        /\ ~ aborted
        /\ program_counter = last.pc + (IF LastKeyPressed = (LastNN = \H9E) THEN 4 ELSE 2)

\* EX9E with Vx = 16 has aborted the machine.
C17_Witness ==
    /\ FetchedSkipKey /\ LastNN = \H9E /\ LastVx = 16
    /\ aborted

\* ------------------------------------------------------ collision flag
\* C18: after a draw of any height, 0 included, VF = 1 iff an in-bounds 1-bit
\* of the sprite targeted a pixel that was lit before the draw and VF = 0
\* otherwise, whatever VF held and also when VF gave a coordinate; a
\* collision in an early row is kept through the later rows; and the
\* display-modified flag is set.
C18_CollisionFlag ==
    RanDraw =>
        /\ v[V_CARRY_FLAG] = Flag(\E p \in Targets : last.display[p])
        /\ display_modified

\* The rows of the target pixels that were lit before the draw, and of those
\* that were not.
CollidingRows == { (p \div DISPLAY_WIDTH) - OriginY : p \in { q \in Targets : last.display[q] } }
FreshRows == { (p \div DISPLAY_WIDTH) - OriginY : p \in { q \in Targets : ~ last.display[q] } }

\* Fifteen rows drawn over the glyph at (0, 0) with VF as the x coordinate:
\* the first rows collided, later rows lit blank pixels only, and VF is 1.
C18_Witness ==
    /\ RanDraw /\ LastX = V_CARRY_FLAG /\ LastN = 15
    /\ CollidingRows # { } /\ FreshRows # { }
    /\ \A r \in CollidingRows : \E f \in FreshRows : f > r
    /\ v[V_CARRY_FLAG] = 1 /\ display_modified

\* ------------------------------------------------- blocked on wait-key
\* The coming cycle fetches wait-key FX0A while no key is pressed.
FetchesBlockedWaitKey ==
    /\ ~ fetch(Cpu).cpu.aborted
    /\ next_opcode \div 4096 = 15 /\ next_opcode % 256 = \H0A
    /\ \A k \in 0..(KEY_COUNT - 1) : ~ pressed_keys[k]

\* C19: a cycle of a machine blocked on wait-key with no key pressed changes
\* nothing but the timers, which fall by 1 toward 0 when the gate fires: the
\* program counter is back at the FX0A, and memory, registers, I, the stack,
\* and the display are as they were.
C19_BlockedFrame ==
    [][ (CycleStep /\ FetchesBlockedWaitKey) =>
            /\ ~ aborted'
            /\ program_counter' = program_counter
            /\ delay_timer' = GatedNext(delay_timer)
            /\ sound_timer' = GatedNext(sound_timer)
            /\ UNCHANGED << memory, v, i, stack, display, display_modified, pressed_keys >>
      ]_vars

\* A later cycle of the wait: the delay timer, set to 3 before the wait, has
\* gone from 2 to 1 and the machine is at the FX0A again with its registers.
C19_Witness ==
    /\ RanWaitKey /\ LastPressed = { }
    /\ last.elapsed >= 1 /\ last.delay_timer = 2 /\ delay_timer = 1
    /\ program_counter = last.pc /\ next_opcode = last.opcode
    /\ v = last.v /\ LastVx = 9

\* ------------------------------------------- store-regs, load-regs, BCD
\* Roms that put a, b, 77 in V0..V2 and 5 in VF, store V0..Vx at I, overwrite
\* V0..V2 and VF, load V0..Vx back and halt; and roms that store the BCD
\* digits of a byte.  I points past the program or at the last bytes of
\* memory.
RoundRoms ==
    { Assemble(<< LD(0, a), LD(1, b), LD(2, 77), LD(15, 5), LDI(nnn), FX(x, \H55),
                  LD(0, 99), LD(1, 98), LD(2, 97), LD(15, 96), FX(x, \H65), JP(Addr(11)) >>) :
        a \in { 0, 200 }, b \in { 1, 255 }, nnn \in { \H300, \HFF0 }, x \in { 0, 1, 15 } }

BcdRoms ==
    { Assemble(<< LD(3, b), LDI(nnn), FX(3, \H33), JP(Addr(3)) >>) :
        b \in { 0, 7, 99, 100, 234, 255 }, nnn \in { \H300, \HFFD } }

InitRegs == InitWith(RoundRoms \cup BcdRoms)

SpecRegs == InitRegs /\ [][Next]_vars

\* The coming cycle fetches FXnn and runs it to the end.
RunsFX(nn) ==
    /\ CycleStep /\ ~ fetch(Cpu).cpu.aborted /\ ~ aborted'
    /\ next_opcode \div 4096 = 15 /\ next_opcode % 256 = nn

NextX == (next_opcode \div 256) % 16

\* C20: FX55 writes V0..Vx to memory[I..I+x] and FX65 reads V0..Vx from
\* there; FX33 writes the decimal digits of Vx, most significant first, to
\* memory[I..I+2]; all three leave I, the registers they do not load and the
\* rest of memory as they were.
C20_StoreLoad ==
    [][ /\ RunsFX(\H55) =>
            /\ i' = i /\ v' = v
            /\ memory' = [ a \in 0..(MEMORY_SIZE - 1) |->
                            IF a >= i /\ a <= i + NextX THEN v[a - i] ELSE memory[a] ]
        /\ RunsFX(\H65) =>
            /\ i' = i /\ memory' = memory
            /\ v' = [ r \in 0..(V_COUNT - 1) |-> IF r <= NextX THEN memory[i + r] ELSE v[r] ]
        /\ RunsFX(\H33) =>
            /\ i' = i /\ v' = v
            /\ \A k \in 0..2 : memory'[i + k] \in 0..9
            /\ 100 * memory'[i] + 10 * memory'[i + 1] + memory'[i + 2] = v[NextX]
            /\ \A a \in 0..(MEMORY_SIZE - 1) : (a < i \/ a > i + 2) => memory'[a] = memory[a]
      ]_vars

\* The round trip: V0 and V1, stored as 200 and 255 and then overwritten with
\* 99 and 98, are back after the load; V2, above x, keeps its 97.
C20_Witness ==
    /\ Ran /\ last.opcode = FX(1, \H65)
    /\ last.v[0] = 99 /\ last.v[1] = 98 /\ last.v[2] = 97
    /\ v[0] = 200 /\ v[1] = 255 /\ v[2] = 97
    /\ i = last.i /\ memory[i] = 200 /\ memory[i + 1] = 255 /\ memory[i + 2] = 0

====
